---- MODULE Spec2Model ----
(***************************************************************************)
(* Model of copy_skin.py: a Maya tool window with two text scroll lists    *)
(* (Column A = source_list, Column B = target_list), a copy button whose   *)
(* label and command are switched by a toggle button, and the handlers     *)
(* that forward the lists to copy_skin_weights.                            *)
(*                                                                         *)
(* The host scene is modelled by a small fixed hierarchy of named nodes,   *)
(* the scene selection, and per node the skin weights it carries.          *)
(***************************************************************************)
EXTENDS Integers, Sequences, FiniteSets, TLC

VARIABLES
    source_list,    \* textScrollList of Column A: [items, allowMultiSelection]
    target_list,    \* textScrollList of Column B: [items, allowMultiSelection]
    copy_button,    \* [label, command, backgroundColor]
    toggle_button,  \* [backgroundColor]
    selection,      \* the scene selection, what cmds.ls(selection=True) returns
    skin,           \* node -> "none" (no skin cluster) or the node whose weights it carries
    log,            \* host commands and messages issued by the last handler
    lastOp,         \* name of the last handler that ran
    nToggles        \* number of presses of the toggle button so far, modulo 2

vars == <<source_list, target_list, copy_button, toggle_button, selection,
          skin, log, lastOp, nToggles>>

-----------------------------------------------------------------------------
(* Bounds of the model *)

MaxItems == 3      \* longest column explored
MaxSel == 2        \* largest scene selection explored

-----------------------------------------------------------------------------
(* The scene: the group arm holds the joint armJ, which holds the transform Leg. *)

Objects == {"arm", "armJ", "Leg"}

\* cmds.objectType(obj)
ObjectType == [o \in Objects |-> IF o = "armJ" THEN "joint" ELSE "transform"]

\* direct children of each node, in the host's child order
ChildrenOf == [o \in Objects |->
                 CASE o = "arm" -> <<"armJ">>
                   [] o = "armJ" -> <<"Leg">>
                   [] OTHER -> <<>>]

\* code points of each name: Python compares str values code point by code point
CodePoints == [o \in Objects |->
                 CASE o = "arm" -> <<97, 114, 109>>
                   [] o = "armJ" -> <<97, 114, 109, 74>>
                   [] o = "Leg" -> <<76, 101, 103>>]

Range(s) == {s[i] : i \in 1..Len(s)}

IsDistinct(s) == \A i, j \in 1..Len(s) : i # j => s[i] # s[j]

\* sequences of distinct nodes of length at most n
RECURSIVE DistinctSeqs(_)
DistinctSeqs(n) ==
    IF n = 0 THEN {<<>>}
    ELSE LET shorter == DistinctSeqs(n - 1)
             grow == {p \in shorter \X Objects :
                        Len(p[1]) = n - 1 /\ p[2] \notin Range(p[1])}
         IN shorter \cup {Append(p[1], p[2]) : p \in grow}

\* widget colours, in tenths of the RGB components
Blue == <<4, 8, 10>>
Orange == <<10, 6, 0>>

SingleLabel == "Copy Skin Weights (Single Source)"
OneToOneLabel == "Copy Skin Weights (One-to-One)"

Event(ev, a, b) == [ev |-> ev, a |-> a, b |-> b]

-----------------------------------------------------------------------------
(* Host queries used by the handlers *)

\* all nodes below the given ones, each node after its own descendants
RECURSIVE AllDescendents(_)
AllDescendents(nodes) ==
    IF nodes = <<>> THEN <<>>
    ELSE AllDescendents(ChildrenOf[Head(nodes)]) \o <<Head(nodes)>>
           \o AllDescendents(Tail(nodes))

IsTransformNode(o) == ObjectType[o] = "transform"

\* cmds.listRelatives(obj, allDescendents=True, type="transform")
listRelatives(obj) == SelectSeq(AllDescendents(ChildrenOf[obj]), IsTransformNode)

\* Python's < on str: lexicographic on code points, a proper prefix first
RECURSIVE SeqLess(_, _)
SeqLess(x, y) ==
    IF y = <<>> THEN FALSE
    ELSE IF x = <<>> THEN TRUE
    ELSE IF Head(x) # Head(y) THEN Head(x) < Head(y)
    ELSE SeqLess(Tail(x), Tail(y))

StrLess(a, b) == SeqLess(CodePoints[a], CodePoints[b])

\* insert one item into a sorted list, after the items that are not greater
RECURSIVE InsertSorted(_, _)
InsertSorted(item, s) ==
    IF s = <<>> THEN <<item>>
    ELSE IF StrLess(item, Head(s)) THEN <<item>> \o s
    ELSE <<Head(s)>> \o InsertSorted(item, Tail(s))

\* Python's sorted(items): stable, ascending
RECURSIVE sorted(_)
sorted(items) ==
    IF items = <<>> THEN <<>>
    ELSE InsertSorted(items[Len(items)], sorted(SubSeq(items, 1, Len(items) - 1)))

-----------------------------------------------------------------------------
(* textScrollList edits *)

\* AppendMissing without the "not in existing_items" test
RECURSIVE AppendMissing_NoCheck(_, _, _)
AppendMissing_NoCheck(items, objs, existing_items) ==
    IF objs = <<>> THEN items
    ELSE AppendMissing_NoCheck(Append(items, Head(objs)), Tail(objs), existing_items)

\* the loop "for obj in objs: if obj not in existing_items: append obj";
\* existing_items is the list as queried once before the loop
RECURSIVE AppendMissing(_, _, _)
AppendMissing(items, objs, existing_items) ==
    IF objs = <<>> THEN items
    ELSE AppendMissing(
           IF Head(objs) \notin Range(existing_items)
             THEN Append(items, Head(objs)) ELSE items,
           Tail(objs), existing_items)

\* textScrollList(e=True, removeItem=item): drops the first item with that text
RECURSIVE RemoveItem(_, _)
RemoveItem(items, item) ==
    IF items = <<>> THEN <<>>
    ELSE IF Head(items) = item THEN Tail(items)
    ELSE <<Head(items)>> \o RemoveItem(Tail(items), item)

\* the loop "for item in selected_items: removeItem=item"
RECURSIVE RemoveAllSelected(_, _)
RemoveAllSelected(items, selected_items) ==
    IF selected_items = <<>> THEN items
    ELSE RemoveAllSelected(RemoveItem(items, Head(selected_items)), Tail(selected_items))

\* textScrollList(q=True, selectItem=True) for the highlighted rows, in list order
RECURSIVE SelectedTexts(_, _, _)
SelectedTexts(items, rows, i) ==
    IF i > Len(items) THEN <<>>
    ELSE (IF i \in rows THEN <<items[i]>> ELSE <<>>) \o SelectedTexts(items, rows, i + 1)

\* the rows a user can have highlighted in a list widget
Highlightable(list) ==
    {rows \in SUBSET (1..Len(list.items)) :
        list.allowMultiSelection \/ Cardinality(rows) <= 1}

-----------------------------------------------------------------------------
(* copy_skin_weights and the loops that call it *)

\* The part of the state copy_skin_weights works on; raised marks an error
\* that has propagated out of the call.
\*
\* cmds.error belongs to the host. Maya's Python binding raises RuntimeError
\* from it, which makes the "return" after it unreachable and carries the
\* error out of the calling loop; the source alone reads as report-and-return.
\* The parameter raises selects between the two, and the copy handlers take
\* either value.
World(s, sel, l, r) == [skin |-> s, selection |-> sel, log |-> l, raised |-> r]

\* copy_skin_weights binding the target before it looks at the source
copy_skin_weights_BindsFirst(source, target, w, raises) ==
    LET called == Append(w.log, Event("copy_skin_weights", source, target))
        unbound == w.skin[target] = "none"
        bound == IF unbound THEN [w.skin EXCEPT ![target] = target] ELSE w.skin
        boundLog == IF unbound
                      THEN Append(called, Event("skinCluster", source, target))
                      ELSE called
    IN IF w.skin[source] = "none"
       THEN World(bound, w.selection,
                  Append(boundLog, Event("error", "Source object has no skin cluster.",
                                         IF raises THEN "raised" ELSE "returned")),
                  raises)
       ELSE World([bound EXCEPT ![target] = bound[source]], <<target>>,
                  boundLog \o <<Event("copySkinWeights", source, target),
                                Event("select", target, ""),
                                Event("warning", "Skin weights copied", target)>>,
                  FALSE)

copy_skin_weights(source, target, w, raises) ==
    LET called == Append(w.log, Event("copy_skin_weights", source, target))
    IN IF w.skin[source] = "none"
       THEN \* cmds.error(...): the message is reported and the call ends here,
            \* by the RuntimeError cmds.error raises or else by the return
            World(w.skin, w.selection,
                  Append(called, Event("error", "Source object has no skin cluster.",
                                       IF raises THEN "raised" ELSE "returned")),
                  raises)
       ELSE LET unbound == w.skin[target] = "none"
                \* cmds.skinCluster(joints, target, tsb=True): a fresh cluster
                \* carries the target's own default weights
                bound == IF unbound THEN [w.skin EXCEPT ![target] = target] ELSE w.skin
                boundLog == IF unbound
                              THEN Append(called, Event("skinCluster", source, target))
                              ELSE called
                \* cmds.copySkinWeights(ss=..., ds=...)
                copied == [bound EXCEPT ![target] = bound[source]]
            IN World(copied, <<target>>,
                     boundLog \o <<Event("copySkinWeights", source, target),
                                   Event("select", target, ""),
                                   Event("warning", "Skin weights copied", target)>>,
                     FALSE)

\* "for source, target in pairs: copy_skin_weights(source, target)"; a raised
\* error leaves the loop
RECURSIVE CopyLoop(_, _, _)
CopyLoop(pairs, w, raises) ==
    IF pairs = <<>> \/ w.raised THEN w
    ELSE CopyLoop(Tail(pairs),
                  copy_skin_weights(Head(pairs)[1], Head(pairs)[2], w, raises), raises)

\* zip(source_items, target_items)
zip(source_items, target_items) ==
    LET n == IF Len(source_items) < Len(target_items)
               THEN Len(source_items) ELSE Len(target_items)
    IN [i \in 1..n |-> <<source_items[i], target_items[i]>>]

\* the pairs of the single source loop: source_items[0] with every target
SingleSourcePairs(source_items, target_items) ==
    [i \in 1..Len(target_items) |-> <<source_items[1], target_items[i]>>]

\* ObjectsToAdd that keeps a group next to its descendants
RECURSIVE ObjectsToAdd_KeepsGroup(_)
ObjectsToAdd_KeepsGroup(selected) ==
    IF selected = <<>> THEN <<>>
    ELSE LET obj == Head(selected)
             children == listRelatives(obj)
             part == IF ObjectType[obj] = "transform"
                       THEN children \o <<obj>>
                       ELSE <<obj>>
         IN part \o ObjectsToAdd_KeepsGroup(Tail(selected))

\* all_objects_to_add of add_to_target
RECURSIVE ObjectsToAdd(_)
ObjectsToAdd(selected) ==
    IF selected = <<>> THEN <<>>
    ELSE LET obj == Head(selected)
             children == listRelatives(obj)
             part == IF ObjectType[obj] = "transform"
                       THEN (IF children # <<>> THEN children ELSE <<obj>>)
                       ELSE <<obj>>
         IN part \o ObjectsToAdd(Tail(selected))

-----------------------------------------------------------------------------
(* Initial state: create_ui() on a scene where Leg, or Leg and arm, are skinned, *)
(* each skinned node carrying its own weights                                   *)

InitialSkins == {[o \in Objects |-> IF o \in S THEN o ELSE "none"] :
                   S \in {{"Leg"}, {"arm", "Leg"}}}

Init ==
    /\ source_list = [items |-> <<>>, allowMultiSelection |-> TRUE]
    /\ target_list = [items |-> <<>>, allowMultiSelection |-> TRUE]
    /\ copy_button = [label |-> SingleLabel,
                      command |-> "copy_weights_button_pressed",
                      backgroundColor |-> Blue]
    /\ toggle_button = [backgroundColor |-> Blue]
    /\ selection = <<>>
    /\ skin \in InitialSkins
    /\ log = <<>>
    /\ lastOp = "create_ui"
    /\ nToggles = 0

-----------------------------------------------------------------------------
(* The user changes the scene selection in the viewport *)

UserSelect ==
    \E sel \in DistinctSeqs(MaxSel) :
        /\ sel # selection
        /\ selection' = sel
        /\ log' = <<>>
        /\ lastOp' = "select"
        /\ UNCHANGED <<source_list, target_list, copy_button, toggle_button,
                       skin, nToggles>>

(* Button handlers *)

add_to_source ==
    LET selected == selection
    IN /\ IF selected # <<>>
          THEN LET existing_items == source_list.items
                   items == AppendMissing(source_list.items, selected, existing_items)
               IN /\ Len(items) <= MaxItems
                  /\ source_list' = [source_list EXCEPT !.items = items]
                  /\ log' = <<>>
          ELSE /\ source_list' = source_list
               /\ log' = <<Event("warning", "No object selected.", "")>>
       /\ lastOp' = "add_to_source"
       /\ UNCHANGED <<target_list, copy_button, toggle_button, selection, skin,
                      nToggles>>

add_to_target ==
    LET selected == selection
    IN /\ IF selected # <<>>
          THEN LET all_objects_to_add == ObjectsToAdd(selected)
                   existing_items == target_list.items
                   items == AppendMissing(target_list.items, all_objects_to_add,
                                          existing_items)
               IN /\ Len(items) <= MaxItems
                  /\ target_list' = [target_list EXCEPT !.items = items]
                  /\ log' = <<>>
          ELSE /\ target_list' = target_list
               /\ log' = <<Event("warning", "No object selected.", "")>>
       /\ lastOp' = "add_to_target"
       /\ UNCHANGED <<source_list, copy_button, toggle_button, selection, skin,
                      nToggles>>

remove_selected_from_source ==
    \E rows \in Highlightable(source_list) :
        LET selected_items == SelectedTexts(source_list.items, rows, 1)
        IN /\ IF selected_items # <<>>
              THEN /\ source_list' = [source_list EXCEPT
                          !.items = RemoveAllSelected(source_list.items, selected_items)]
                   /\ log' = <<>>
              ELSE /\ source_list' = source_list
                   /\ log' = <<Event("warning", "No item selected in the list.", "")>>
           /\ lastOp' = "remove_selected_from_source"
           /\ UNCHANGED <<target_list, copy_button, toggle_button, selection, skin,
                          nToggles>>

remove_selected_from_target ==
    \E rows \in Highlightable(target_list) :
        LET selected_items == SelectedTexts(target_list.items, rows, 1)
        IN /\ IF selected_items # <<>>
              THEN /\ target_list' = [target_list EXCEPT
                          !.items = RemoveAllSelected(target_list.items, selected_items)]
                   /\ log' = <<>>
              ELSE /\ target_list' = target_list
                   /\ log' = <<Event("warning", "No item selected in the list.", "")>>
           /\ lastOp' = "remove_selected_from_target"
           /\ UNCHANGED <<source_list, copy_button, toggle_button, selection, skin,
                          nToggles>>

\* the copy button while its command is copy_weights_button_pressed
copy_weights_button_pressed(raises) ==
    LET source_items == source_list.items
        target_items == target_list.items
    IN /\ copy_button.command = "copy_weights_button_pressed"
       /\ IF source_items = <<>>
          THEN /\ log' = <<Event("warning", "Please add a source object to Column A.", "")>>
               /\ UNCHANGED <<skin, selection>>
          ELSE IF target_items = <<>>
          THEN /\ log' = <<Event("warning",
                                 "Please add at least one target object to Column B.", "")>>
               /\ UNCHANGED <<skin, selection>>
          ELSE LET w == CopyLoop(SingleSourcePairs(source_items, target_items),
                                 World(skin, selection, <<>>, FALSE), raises)
               IN /\ skin' = w.skin
                  /\ selection' = w.selection
                  /\ log' = w.log
       /\ lastOp' = "copy_weights_button_pressed"
       /\ UNCHANGED <<source_list, target_list, copy_button, toggle_button,
                      nToggles>>

\* the copy button while its command is copy_weights_one_to_one
copy_weights_one_to_one(raises) ==
    LET source_items == source_list.items
        target_items == target_list.items
    IN /\ copy_button.command = "copy_weights_one_to_one"
       /\ IF source_items = <<>>
          THEN /\ log' = <<Event("warning",
                                 "Please add at least one source object to Column A.", "")>>
               /\ UNCHANGED <<skin, selection>>
          ELSE IF target_items = <<>>
          THEN /\ log' = <<Event("warning",
                                 "Please add at least one target object to Column B.", "")>>
               /\ UNCHANGED <<skin, selection>>
          ELSE IF Len(source_items) # Len(target_items)
          THEN /\ log' = <<Event("warning",
                   "The number of objects in Column A and Column B must be the same.", "")>>
               /\ UNCHANGED <<skin, selection>>
          ELSE LET w == CopyLoop(zip(source_items, target_items),
                                 World(skin, selection, <<>>, FALSE), raises)
               IN /\ skin' = w.skin
                  /\ selection' = w.selection
                  /\ log' = w.log
       /\ lastOp' = "copy_weights_one_to_one"
       /\ UNCHANGED <<source_list, target_list, copy_button, toggle_button,
                      nToggles>>

clear_source_list ==
    /\ source_list' = [source_list EXCEPT !.items = <<>>]
    /\ log' = <<>>
    /\ lastOp' = "clear_source_list"
    /\ UNCHANGED <<target_list, copy_button, toggle_button, selection, skin,
                   nToggles>>

clear_target_list ==
    /\ target_list' = [target_list EXCEPT !.items = <<>>]
    /\ log' = <<>>
    /\ lastOp' = "clear_target_list"
    /\ UNCHANGED <<source_list, copy_button, toggle_button, selection, skin,
                   nToggles>>

\* ToggleEdits that changes the label and colours but not the command
ToggleEdits_KeepsCommand(cb, tb, sl) ==
    LET current_mode == cb.label
    IN IF current_mode = SingleLabel
       THEN <<[cb EXCEPT !.label = OneToOneLabel, !.backgroundColor = Orange],
              [tb EXCEPT !.backgroundColor = Orange],
              [sl EXCEPT !.allowMultiSelection = TRUE]>>
       ELSE <<[cb EXCEPT !.label = SingleLabel, !.backgroundColor = Blue],
              [tb EXCEPT !.backgroundColor = Blue],
              [sl EXCEPT !.allowMultiSelection = FALSE]>>

\* the widget edits of toggle_mode, as the new <<copy_button, toggle_button, source_list>>
ToggleEdits(cb, tb, sl) ==
    LET current_mode == cb.label
    IN IF current_mode = SingleLabel
       THEN <<[label |-> OneToOneLabel, command |-> "copy_weights_one_to_one",
               backgroundColor |-> Orange],
              [tb EXCEPT !.backgroundColor = Orange],
              [sl EXCEPT !.allowMultiSelection = TRUE]>>
       ELSE <<[label |-> SingleLabel, command |-> "copy_weights_button_pressed",
               backgroundColor |-> Blue],
              [tb EXCEPT !.backgroundColor = Blue],
              [sl EXCEPT !.allowMultiSelection = FALSE]>>

toggle_mode ==
    /\ LET edits == ToggleEdits(copy_button, toggle_button, source_list)
       IN /\ copy_button' = edits[1]
          /\ toggle_button' = edits[2]
          /\ source_list' = edits[3]
    /\ nToggles' = (nToggles + 1) % 2
    /\ log' = <<>>
    /\ lastOp' = "toggle_mode"
    /\ UNCHANGED <<target_list, selection, skin>>

\* SortColumn without the removeAll before the appends
SortColumn_NoClear(items) ==
    IF items # <<>> THEN items \o sorted(items) ELSE items

\* the items of a column after its sort handler: removeAll, then one append
\* for each item of sorted(items)
SortColumn(items) ==
    IF items # <<>> THEN sorted(items) ELSE items

sort_column_a ==
    /\ source_list' = [source_list EXCEPT !.items = SortColumn(source_list.items)]
    /\ log' = <<>>
    /\ lastOp' = "sort_column_a"
    /\ UNCHANGED <<target_list, copy_button, toggle_button, selection, skin,
                   nToggles>>

sort_column_b ==
    /\ target_list' = [target_list EXCEPT !.items = SortColumn(target_list.items)]
    /\ log' = <<>>
    /\ lastOp' = "sort_column_b"
    /\ UNCHANGED <<source_list, copy_button, toggle_button, selection, skin,
                   nToggles>>

Next ==
    \/ UserSelect
    \/ add_to_source
    \/ add_to_target
    \/ remove_selected_from_source
    \/ remove_selected_from_target
    \/ \E raises \in BOOLEAN : copy_weights_button_pressed(raises)
    \/ \E raises \in BOOLEAN : copy_weights_one_to_one(raises)
    \/ clear_source_list
    \/ clear_target_list
    \/ toggle_mode
    \/ sort_column_a
    \/ sort_column_b

Spec == Init /\ [][Next]_vars

-----------------------------------------------------------------------------
(* Vocabulary of the properties *)

Items(list) == list.items

\* the <<source, target>> arguments of the copy_skin_weights calls in a log, in order
RECURSIVE Calls(_)
Calls(l) ==
    IF l = <<>> THEN <<>>
    ELSE (IF Head(l).ev = "copy_skin_weights" THEN <<<<Head(l).a, Head(l).b>>>> ELSE <<>>)
           \o Calls(Tail(l))

OnlyWarns(l) == Len(l) = 1 /\ l[1].ev = "warning"

Count(s, x) == Cardinality({i \in 1..Len(s) : s[i] = x})

SameBag(s, t) == \A x \in Objects : Count(s, x) = Count(t, x)

IsPrefix(s, t) == Len(s) <= Len(t) /\ SubSeq(t, 1, Len(s)) = s

\* the scene hierarchy as an ancestor relation
ParentsOf(o) == {p \in Objects : o \in Range(ChildrenOf[p])}

RECURSIVE AncestorsOf(_)
AncestorsOf(o) ==
    LET ps == ParentsOf(o)
    IN ps \cup UNION {AncestorsOf(p) : p \in ps}

DescendantTransforms(obj) ==
    {o \in Objects : ObjectType[o] = "transform" /\ obj \in AncestorsOf(o)}

\* position of each name in code point order
CodePointRank == [o \in Objects |->
                    CASE o = "Leg" -> 1 [] o = "arm" -> 2 [] o = "armJ" -> 3]

NonDecreasing(s) ==
    \A i, j \in 1..Len(s) : i < j => CodePointRank[s[i]] <= CodePointRank[s[j]]

-----------------------------------------------------------------------------
(* C1: no object name occurs more than once in Column B, whatever sequence of
   add_to_target, remove_selected_from_target, clear_target_list and
   sort_column_b has run. *)
C1_NoDuplicatesInColumnB == IsDistinct(Items(target_list))

(* C2: add_to_target with one selected object: a transform that has
   descendant transforms gets all of them into Column B and is not itself
   appended; any other object (no descendant transform, or not a transform)
   is itself in Column B afterwards, appended unless it was already there. *)
C2_GroupExpansion ==
    [][(lastOp' = "add_to_target" /\ Len(selection) = 1) =>
         LET obj == selection[1]
             old == Items(target_list)
             new == Items(target_list')
             appended == SubSeq(new, Len(old) + 1, Len(new))
         IN /\ IsPrefix(old, new)
            /\ IF ObjectType[obj] = "transform" /\ DescendantTransforms(obj) # {}
               THEN /\ DescendantTransforms(obj) \subseteq Range(new)
                    /\ obj \notin Range(appended)
               ELSE /\ obj \in Range(new)
                    /\ appended = IF obj \in Range(old) THEN <<>> ELSE <<obj>>
      ]_vars

\* the group arm was selected alone: Leg was added, arm and the joint armJ were not
C2_Witness ==
    /\ lastOp = "add_to_target"
    /\ selection = <<"arm">>
    /\ Items(target_list) = <<"Leg">>

(* C3: in single source mode the copy button calls copy_skin_weights(first
   item of Column A, t) once for every item t of Column B, in list order, and
   with no other source; with an empty column it only warns and changes
   nothing in the scene. *)
C3_SingleSourceCallsEveryTarget ==
    [][lastOp' = "copy_weights_button_pressed" =>
         LET A == Items(source_list)
             B == Items(target_list)
         IN IF A = <<>> \/ B = <<>>
            THEN OnlyWarns(log') /\ skin' = skin /\ selection' = selection
            ELSE Calls(log') = [i \in 1..Len(B) |-> <<A[1], B[i]>>]
      ]_vars

(* C4: in one-to-one mode, with columns of equal non-zero length n the copy
   button calls copy_skin_weights(A[i], B[i]) for i = 0..n-1 in order and for
   no other pair; otherwise it only warns and changes nothing in the scene. *)
C4_OneToOneCallsEveryPair ==
    [][lastOp' = "copy_weights_one_to_one" =>
         LET A == Items(source_list)
             B == Items(target_list)
         IN IF A = <<>> \/ B = <<>> \/ Len(A) # Len(B)
            THEN OnlyWarns(log') /\ skin' = skin /\ selection' = selection
            ELSE Calls(log') = [i \in 1..Len(A) |-> <<A[i], B[i]>>]
      ]_vars

(* C5: the copy button is in One-to-One mode iff the toggle button has been
   pressed an odd number of times; its command always matches its label; and
   toggle_mode leaves the items of both columns unchanged. *)
C5_LabelCommandParity ==
    /\ copy_button.label \in {SingleLabel, OneToOneLabel}
    /\ copy_button.label = OneToOneLabel <=> nToggles = 1
    /\ copy_button.command = "copy_weights_button_pressed"
         <=> copy_button.label = SingleLabel
    /\ copy_button.command = "copy_weights_one_to_one"
         <=> copy_button.label = OneToOneLabel

C5_ToggleMode ==
    /\ []C5_LabelCommandParity
    /\ [][lastOp' = "toggle_mode" =>
            /\ Items(source_list') = Items(source_list)
            /\ target_list' = target_list]_vars

\* the toggle button was pressed an even number of times (at least twice)
\* with items in both columns
C5_Witness ==
    /\ lastOp = "toggle_mode"
    /\ nToggles = 0
    /\ Items(source_list) # <<>>
    /\ Items(target_list) # <<>>

(* C6: copy_skin_weights called with a source that has no skin cluster
   reports 'Source object has no skin cluster.' once, binds nothing, copies
   nothing, and leaves every skin and the scene selection as they were; a
   handler never calls it more often than its loop has pairs. *)
C6_FailedCallChangesNothing ==
    \A source, target \in Objects : \A raises \in BOOLEAN :
        skin[source] = "none" =>
            LET w == copy_skin_weights(source, target,
                                       World(skin, selection, <<>>, FALSE), raises)
            IN /\ w.skin = skin
               /\ w.selection = selection
               /\ Len(w.log) = 2
               /\ w.log[1] = Event("copy_skin_weights", source, target)
               /\ w.log[2].ev = "error"
               /\ w.log[2].a = "Source object has no skin cluster."

C6_MissingSkinCluster ==
    /\ []C6_FailedCallChangesNothing
    /\ [][lastOp' \in {"copy_weights_button_pressed", "copy_weights_one_to_one"} =>
            /\ \A i \in 1..Len(log') :
                 log'[i].ev = "error" => i > 1 /\ log'[i - 1].ev = "copy_skin_weights"
            /\ Len(Calls(log')) <= Len(Items(target_list))
            /\ (\A i \in 1..Len(log') : log'[i].ev # "copySkinWeights")
                 => skin' = skin /\ selection' = selection]_vars

\* a copy handler has called copy_skin_weights with the unskinned source arm
C6_Witness ==
    /\ lastOp = "copy_weights_button_pressed"
    /\ Len(log) >= 2
    /\ log[1] = Event("copy_skin_weights", "arm", "Leg")
    /\ log[2].ev = "error"

(* C7: add_to_source with a non-empty selection leaves Column A as its old
   items followed by the selected objects that were not in it, in selection
   order; with an empty selection it warns 'No object selected.' and leaves
   Column A unchanged. Column B is unchanged either way. *)
C7_AddToSource ==
    [][lastOp' = "add_to_source" =>
         LET old == Items(source_list)
             NotListed(obj) == obj \notin Range(old)
         IN /\ target_list' = target_list
            /\ IF selection # <<>>
               THEN /\ Items(source_list') = old \o SelectSeq(selection, NotListed)
                    /\ log' = <<>>
               ELSE /\ source_list' = source_list
                    /\ log' = <<Event("warning", "No object selected.", "")>>
      ]_vars

\* Leg and arm were selected while arm was already in Column A
C7_Witness ==
    /\ lastOp = "add_to_source"
    /\ selection = <<"Leg", "arm">>
    /\ Items(source_list) = <<"armJ", "arm", "Leg">>

(* C8: sort_column_a and sort_column_b leave their column with the same
   multiset of names in non-decreasing order and the other column unchanged;
   sorting again changes nothing; an empty column stays empty. *)
SortOutcome(old, new) ==
    /\ SameBag(old, new)
    /\ Len(new) = Len(old)
    /\ NonDecreasing(new)
    /\ SortColumn(new) = new

C8_SortColumns ==
    [][/\ lastOp' = "sort_column_a" =>
            /\ SortOutcome(Items(source_list), Items(source_list'))
            /\ target_list' = target_list
       /\ lastOp' = "sort_column_b" =>
            /\ SortOutcome(Items(target_list), Items(target_list'))
            /\ source_list' = source_list
      ]_vars

\* Column B was sorted while it held a name twice
C8_Witness ==
    /\ lastOp = "sort_column_b"
    /\ Items(target_list) = <<"Leg", "Leg", "armJ">>

(* C9: Column A allows multi-selection iff the copy button is in One-to-One
   mode, in every state from create_ui on. *)
C9_MultiSelectIffOneToOne ==
    source_list.allowMultiSelection <=> copy_button.label = OneToOneLabel

====
